---- MODULE Spec2Model ----
(***************************************************************************)
(* Prerequisite graph validator of learning-design/scripts/validate_graph  *)
(* (main, discover_modules, validate_prerequisite_references,              *)
(* detect_cycles with its nested has_cycle, detect_orphans,                *)
(* validate_progression_rules).  One run of main is one behaviour: the     *)
(* module directory is the input, the registry `modules` is built record   *)
(* by record, the four analyzers run in the order of main and the exit     *)
(* code is the result.                                                     *)
(***************************************************************************)
EXTENDS Integers, Sequences, FiniteSets, TLC

\* ------------------------------------------------------------------ bounds
\* Number of module_* directories of one run, at most.
MaxModules == 2
\* Length of one 'prerequisites' list, at most.
MaxPrereqs == 2
\* The depth the calls of has_cycle can reach before the interpreter raises
\* RecursionError: sys.getrecursionlimit(), 1000 unless changed, less the frames
\* below has_cycle.  It is scaled with the inputs: a chain of prerequisites of
\* the graph, level, load and chain inputs counts at most MaxModules + 2
\* identifiers and stays within it, a chain of the deep inputs goes beyond it.
RecursionLimit == MaxModules + 2

\* ------------------------------------------------------- program constants
BLOOM_ORDER == <<"Remember", "Understand", "Apply", "Analyze", "Evaluate", "Create">>

SCAFFOLDING_VALUE == [HIGH |-> 3, MEDIUM |-> 2, LOW |-> 1]

\* metadata.get('id') of a METADATA without 'id'
NoneId == -1

\* dict.get of a key METADATA does not have (Python's None), for the string fields
NoneStr == "None"

\* ----------------------------------------------------------------- helpers
Range(s) == {s[n] : n \in 1..Len(s)}

\* x in list
InList(x, s) == \E n \in 1..Len(s) : s[n] = x

\* list.index(x): the first position of x, counted from 0
Index(s, x) == (CHOOSE n \in 1..Len(s) : s[n] = x /\ \A m \in 1..(n - 1) : s[m] # x) - 1

\* sorted(S) of a set of integers
RECURSIVE sorted(_)
sorted(S) ==
    IF S = {} THEN <<>>
    ELSE LET lo == CHOOSE x \in S : \A y \in S : x <= y
         IN  <<lo>> \o sorted(S \ {lo})

\* ------------------------------------------------------------------ inputs
\* Module identifiers.  Identifier MaxModules is never the id of a record of the
\* graph inputs, so a prerequisite naming it dangles (the 99 of the examples).
Ids == 0..MaxModules

\* The 'prerequisites' lists of the inputs, in ascending order (an identifier
\* may repeat): every analyzer builds a set from the list or takes its entries
\* one by one.
PrereqLists ==
    {p \in UNION {[1..n -> Ids] : n \in 0..MaxPrereqs} :
        \A a, b \in 1..Len(p) : a <= b => p[a] <= p[b]}

BloomInputs == Range(BLOOM_ORDER) \cup {"TODO", NoneStr}

ScaffoldingInputs == DOMAIN SCAFFOLDING_VALUE \cup {"TODO", NoneStr}

\* One METADATA dictionary.  ptype tells whether 'prerequisites' is a list
\* ("list", the key missing included: get defaults to []) or a value that
\* cannot be iterated ("None").
Metadata(id, title, bloom, scaffolding, ptype, prereqs) ==
    [id |-> id, title |-> title, bloom_level |-> bloom,
     scaffolding_level |-> scaffolding, ptype |-> ptype, prerequisites |-> prereqs]

NoMetadata == Metadata(NoneId, NoneStr, NoneStr, NoneStr, "list", <<>>)

\* One entry of sorted(modules_dir.glob("module_*")): what the loader finds there.
Entry(form, meta) == [form |-> form, meta |-> meta]

SkipForms == {"not_dir", "no_metadata_py", "no_loader", "exec_error", "no_METADATA"}

\* Inputs of the graph analyses: every record loads, record n carries id n - 1,
\* the levels are fixed and valid, the prerequisites range over every list.
GraphMetadata == {Metadata(NoneId, "T", "Apply", "MEDIUM", "list", p) : p \in PrereqLists}

GraphInputs ==
    {[n \in 1..Len(d) |-> Entry("ok", [d[n] EXCEPT !.id = n - 1])] :
        d \in UNION {[1..c -> GraphMetadata] : c \in 1..MaxModules}}

\* Inputs of the progression rules: two records, ids 0 and 1, every pair of
\* levels (valid, invalid and missing); record 1 lists at most one prerequisite
\* and record 0 lists at most module 1.
LevelMetadata(id, prereqs) ==
    {Metadata(id, "T", b, s, "list", p) :
        b \in BloomInputs, s \in ScaffoldingInputs, p \in prereqs}

LevelInputs ==
    {<<Entry("ok", m0), Entry("ok", m1)>> :
        m0 \in LevelMetadata(0, {<<>>, <<1>>}),
        m1 \in LevelMetadata(1, {p \in PrereqLists : Len(p) <= 1})}

\* Inputs of the loader: directories that cannot be loaded, records without an
\* id, records sharing an id, and records with one defect each (no title, no
\* bloom_level, 'prerequisites' that is no list).
LoadLists == {<<>>, <<0>>, <<1>>}

LoadMetadata ==
    {Metadata(id, t[1], t[2], "MEDIUM", "list", p) :
        id \in {0, 1}, p \in LoadLists,
        t \in {<<"T", "Apply">>, <<NoneStr, "Apply">>, <<"T", NoneStr>>}}
    \cup {Metadata(id, "T", "Apply", "MEDIUM", "None", <<>>) : id \in {0, 1}}
    \cup {NoMetadata}

LoadEntries ==
    {Entry("ok", m) : m \in LoadMetadata} \cup {Entry(f, NoMetadata) : f \in SkipForms}

LoadInputs == UNION {[1..c -> LoadEntries] : c \in 0..MaxModules}

\* Inputs of the fixed-point expansion: MaxModules + 1 records, record n with id
\* n - 1, each listing at most one prerequisite; the identifier MaxModules + 1
\* dangles.
ChainLists == {<<>>} \cup {<<p>> : p \in 0..(MaxModules + 1)}

ChainInputs ==
    {[n \in 1..(MaxModules + 1) |->
         Entry("ok", Metadata(n - 1, "T", "Apply", "MEDIUM", "list", d[n]))] :
        d \in [1..(MaxModules + 1) -> ChainLists]}

\* Inputs of the records sharing an id: MaxModules + 1 directories, each without
\* metadata.py or with a record whose id is one of MaxModules identifiers, so
\* that two records share an id whenever every directory holds one.  The record
\* of directory n is told from the others by its Bloom level, the n-th.
DuplicateEntries(n) ==
    {Entry("ok", Metadata(id, "T", BLOOM_ORDER[n], "MEDIUM", "list", p)) :
        id \in 0..(MaxModules - 1), p \in {<<>>, <<0>>}}
    \cup {Entry("no_metadata_py", NoMetadata)}

DuplicateInputs ==
    {d \in [1..(MaxModules + 1) ->
               UNION {DuplicateEntries(n) : n \in 1..(MaxModules + 1)}] :
        \A n \in 1..(MaxModules + 1) : d[n] \in DuplicateEntries(n)}

\* Inputs of the overlapping analyzer calls: MaxModules records with at most one
\* prerequisite each; record 0 sits below the others in Bloom level and above
\* them in scaffolding.
ParallelInputs ==
    {[n \in 1..MaxModules |->
         Entry("ok", Metadata(n - 1, "T",
                              IF n = 1 THEN "Remember" ELSE "Create",
                              IF n = 1 THEN "HIGH" ELSE "LOW",
                              "list", d[n]))] :
        d \in [1..MaxModules -> ChainLists]}

\* Inputs of the skipped edges of the progression rules: records 0 and 1 without
\* prerequisites, their levels valid or not; record 2, its levels valid or not,
\* listing up to MaxPrereqs of the identifiers 0, 1, 2 and MaxModules + 1 (which
\* dangles) in any order.
SkipLists == UNION {[1..n -> {0, 1, 2, MaxModules + 1}] : n \in 0..MaxPrereqs}

SkipInputs ==
    {<<Entry("ok", Metadata(0, "T", l[1], l[2], "list", <<>>)),
       Entry("ok", Metadata(1, "T", l[3], l[4], "list", <<>>)),
       Entry("ok", Metadata(2, "T", l[5], l[6], "list", p))>> :
        l \in {"Remember", "TODO"} \X {"HIGH", NoneStr}
              \X {"Remember", "TODO"} \X {"HIGH", NoneStr}
              \X {"Create", "TODO", NoneStr} \X {"LOW", "TODO", NoneStr},
        p \in SkipLists}

\* Inputs of the deep traversals: one chain of RecursionLimit + 1 records, each
\* but the last listing the next as its one prerequisite, loaded from the head
\* of the chain on or from its end on.
DeepChain == [n \in 0..RecursionLimit |->
                 Metadata(n, "T", "Apply", "MEDIUM", "list",
                          IF n < RecursionLimit THEN <<n + 1>> ELSE <<>>)]

DeepInputs ==
    {[n \in 1..(RecursionLimit + 1) |-> Entry("ok", DeepChain[n - 1])],
     [n \in 1..(RecursionLimit + 1) |-> Entry("ok", DeepChain[RecursionLimit + 1 - n])]}

\* ------------------------------------------------------------------- state
VARIABLES
    dir_state,      \* main: modules_dir is "ok", "missing" or "not_dir"
    module_dirs,    \* discover_modules: sorted(modules_dir.glob("module_*"))
    pc,             \* the statement main (or the function it called) is at
    i,              \* discover_modules: position of the for loop in module_dirs
    modules,        \* the registry: module_id -> metadata
    order,          \* the keys of modules in insertion order (dict order)
    warnings,       \* the "Warning: ..., skipping" lines printed by discover_modules
    errors,         \* main: the list each analyzer returned
    all_errors,     \* main: the findings of the report
    raised,         \* the exception that reached main's handler, if any
    result,         \* the exit code main returned, NoResult while it runs
    visualize,      \* what became of --visualize
    graph,          \* detect_cycles, detect_orphans: the adjacency sets
    visited,        \* detect_cycles: the visited set shared by all traversals
    rec_stack,      \* has_cycle: the recursion-stack set of the current traversal
    stack,          \* has_cycle: the call stack, one frame per active call
    k,              \* detect_cycles: position of the outer for loop in graph
    cycle_errors,   \* detect_cycles: its local list errors
    foundation_modules, \* detect_orphans: modules without prerequisites
    reachable,      \* detect_orphans: the reachable set
    changed,        \* detect_orphans: the flag of the while loop
    j,              \* detect_orphans: position of the inner for loop in graph
    threads         \* the analyzer calls in progress when main's calls overlap

main_vars == <<dir_state, module_dirs, i, modules, order, warnings, threads>>

cycle_vars == <<visited, rec_stack, stack, k, cycle_errors>>

orphan_vars == <<foundation_modules, reachable, changed, j>>

vars == <<dir_state, module_dirs, pc, i, modules, order, warnings, errors,
          all_errors, raised, result, visualize, graph, visited, rec_stack, stack,
          k, cycle_errors, foundation_modules, reachable, changed, j, threads>>

NoResult == -1

NoException == "none"

\* The analyzers in the order main calls them.
Analyzers == <<"references", "cycles", "orphans", "progression">>

\* main calls one analyzer after the other: no call overlaps another.
NoThreads == [running |-> "main", at |-> <<>>]

InitWith(inputs) ==
    /\ module_dirs \in inputs
    /\ dir_state \in (IF module_dirs = <<>> THEN {"ok", "missing", "not_dir"} ELSE {"ok"})
    /\ pc = "main"
    /\ i = 1
    /\ modules = <<>>
    /\ order = <<>>
    /\ warnings = <<>>
    /\ errors = <<>>
    /\ all_errors = <<>>
    /\ raised = NoException
    /\ result = NoResult
    /\ visualize = "pending"
    /\ graph = <<>>
    /\ visited = {}
    /\ rec_stack = {}
    /\ stack = <<>>
    /\ k = 1
    /\ cycle_errors = <<>>
    /\ foundation_modules = {}
    /\ reachable = {}
    /\ changed = FALSE
    /\ j = 1
    /\ threads = NoThreads

\* -------------------------------------------------------------------- main
\* except Exception at the end of main: print "Unexpected error", return 1
Unexpected(exception) ==
    /\ raised' = exception
    /\ result' = 1
    /\ pc' = "done"

\* main up to the call of discover_modules, and the glob of discover_modules
MainStart ==
    /\ pc = "main"
    /\ IF dir_state # "ok"
       THEN /\ result' = 1
            /\ pc' = "done"
            /\ UNCHANGED raised
       ELSE IF module_dirs = <<>>
            THEN Unexpected("ValueError: No modules found")
            ELSE /\ pc' = "discover"
                 /\ UNCHANGED <<raised, result>>
    /\ UNCHANGED <<main_vars, errors, all_errors, visualize, graph, cycle_vars, orphan_vars>>

\* The warning discover_modules prints for the directory at position n.
Warning(n, kind) == [dir |-> n, kind |-> kind]

\* Mutant of DiscoverStep: the test 'module_id in modules' is left out, so
\* the record of a later directory replaces the record stored under its id.
DiscoverStep_Overwrite ==
    /\ pc = "discover"
    /\ i <= Len(module_dirs)
    /\ LET entry == module_dirs[i]
           metadata == entry.meta
           module_id == metadata.id
       IN  CASE entry.form = "not_dir" ->
                    UNCHANGED <<modules, order, warnings>>
             [] entry.form \in SkipForms \ {"not_dir"} ->
                    /\ warnings' = Append(warnings, Warning(i, entry.form))
                    /\ UNCHANGED <<modules, order>>
             [] entry.form = "ok" /\ module_id = NoneId ->
                    /\ warnings' = Append(warnings, Warning(i, "missing_id"))
                    /\ UNCHANGED <<modules, order>>
             [] entry.form = "ok" /\ module_id # NoneId /\ module_id \in DOMAIN modules ->
                    /\ modules' = [modules EXCEPT ![module_id] = metadata]
                    /\ UNCHANGED <<order, warnings>>
             [] OTHER ->
                    /\ modules' = (module_id :> metadata) @@ modules
                    /\ order' = Append(order, module_id)
                    /\ UNCHANGED warnings
    /\ i' = i + 1
    /\ UNCHANGED <<dir_state, module_dirs, pc, errors, all_errors, raised, result,
                   visualize, graph, cycle_vars, orphan_vars, threads>>

\* One iteration of the for loop of discover_modules.
DiscoverStep ==
    /\ pc = "discover"
    /\ i <= Len(module_dirs)
    /\ LET entry == module_dirs[i]
           metadata == entry.meta
           module_id == metadata.id
       IN  CASE entry.form = "not_dir" ->
                    UNCHANGED <<modules, order, warnings>>
             [] entry.form \in SkipForms \ {"not_dir"} ->
                    /\ warnings' = Append(warnings, Warning(i, entry.form))
                    /\ UNCHANGED <<modules, order>>
             [] entry.form = "ok" /\ module_id = NoneId ->
                    /\ warnings' = Append(warnings, Warning(i, "missing_id"))
                    /\ UNCHANGED <<modules, order>>
             [] entry.form = "ok" /\ module_id # NoneId /\ module_id \in DOMAIN modules ->
                    \* raise ValueError, caught by the except of the loop body
                    /\ warnings' = Append(warnings, Warning(i, "Duplicate module ID"))
                    /\ UNCHANGED <<modules, order>>
             [] OTHER ->
                    /\ modules' = (module_id :> metadata) @@ modules
                    /\ order' = Append(order, module_id)
                    /\ UNCHANGED warnings
    /\ i' = i + 1
    /\ UNCHANGED <<dir_state, module_dirs, pc, errors, all_errors, raised, result,
                   visualize, graph, cycle_vars, orphan_vars, threads>>

\* return modules, and main's test of an empty registry
DiscoverReturn ==
    /\ pc = "discover"
    /\ i > Len(module_dirs)
    /\ IF modules = <<>>
       THEN /\ result' = 1
            /\ pc' = "done"
       ELSE /\ pc' = "references"
            /\ UNCHANGED result
    /\ UNCHANGED <<main_vars, errors, all_errors, raised, visualize, graph,
                   cycle_vars, orphan_vars>>

\* ---------------------------------------------------------------- findings
\* One entry of an analyzer's list errors: the data its message is formatted from.
Finding(kind, module_id, title, prereq_id, levels, orphaned, foundation) ==
    [kind |-> kind, module |-> module_id, title |-> title, prereq |-> prereq_id,
     levels |-> levels, orphaned |-> orphaned, foundation |-> foundation]

\* metadata.get('title', 'Unknown')
Title(metadata) == IF metadata.title = NoneStr THEN "Unknown" ELSE metadata.title

\* s1 + s2 + ... of a list of lists
RECURSIVE Concat(_)
Concat(lists) == IF lists = <<>> THEN <<>> ELSE Head(lists) \o Concat(Tail(lists))

\* main: errors = analyzer(modules); all_errors.extend(errors)
Return(analyzer, list, next_pc) ==
    /\ errors' = (analyzer :> list) @@ errors
    /\ all_errors' = all_errors \o list
    /\ pc' = next_pc

\* Iterating 'prerequisites' raises TypeError when it is no list.
Iterable(mods) == \A mid \in DOMAIN mods : mods[mid].ptype = "list"

\* ------------------------------------------ validate_prerequisite_references
\* prereq_id not in modules
Missing(mods, prereq_id) == prereq_id \notin DOMAIN mods

\* Mutant of ReferenceErrors: the loop over the list breaks at the first
\* missing prerequisite.
ReferenceErrors_Break(mods, module_id) ==
    LET metadata == mods[module_id]
        prereqs == metadata.prerequisites
        missing == {n \in 1..Len(prereqs) : Missing(mods, prereqs[n])}
    IN  IF missing = {} THEN <<>>
        ELSE <<Finding("DanglingPrerequisite", module_id, Title(metadata),
                       prereqs[CHOOSE n \in missing : \A m \in missing : n <= m],
                       <<>>, <<>>, <<>>)>>

\* The findings of one module: one per entry of its list that is no key.
ReferenceErrors(mods, module_id) ==
    LET metadata == mods[module_id]
        prereqs == metadata.prerequisites
        all == [n \in 1..Len(prereqs) |->
                   Finding("DanglingPrerequisite", module_id, Title(metadata),
                           prereqs[n], <<>>, <<>>, <<>>)]
    IN  SelectSeq(all, LAMBDA f : Missing(mods, f.prereq))

validate_prerequisite_references(mods, keys) ==
    Concat([n \in 1..Len(keys) |-> ReferenceErrors(mods, keys[n])])

\* Mutant of References: the analyzer repairs the registry, striking the
\* prerequisites it reported from every list.
References_Repair ==
    /\ pc = "references"
    /\ Iterable(modules)
    /\ Return("references", validate_prerequisite_references(modules, order), "cycles")
    /\ modules' = [mid \in DOMAIN modules |->
                      [modules[mid] EXCEPT !.prerequisites =
                          SelectSeq(@, LAMBDA p : ~Missing(modules, p))]]
    /\ UNCHANGED <<dir_state, module_dirs, i, order, warnings, threads, raised, result,
                   visualize, graph, cycle_vars, orphan_vars>>

References ==
    /\ pc = "references"
    /\ IF Iterable(modules)
       THEN /\ Return("references", validate_prerequisite_references(modules, order), "cycles")
            /\ UNCHANGED <<raised, result>>
       ELSE /\ Unexpected("TypeError: object is not iterable")
            /\ UNCHANGED <<errors, all_errors>>
    /\ UNCHANGED <<main_vars, visualize, graph, cycle_vars, orphan_vars>>

\* -------------------------------------------------------------- detect_cycles
\* graph = {mid: set(m.get('prerequisites', [])) for mid, m in modules.items()}
BuildGraph(mods) == [mid \in DOMAIN mods |-> Range(mods[mid].prerequisites)]

\* graph.get(node, [])
Neighbors(g, node) == IF node \in DOMAIN g THEN g[node] ELSE {}

\* One call of has_cycle: its node and the neighbors the for loop has yet to take.
Frame(node) == [node |-> node, todo |-> Neighbors(graph, node)]

CircularDependency(module_id) ==
    Finding("CircularDependency", module_id, Title(modules[module_id]), NoneId,
            <<>>, <<>>, <<>>)

\* errors = []; graph = ...; visited = set()
CyclesStart ==
    /\ pc = "cycles"
    /\ graph' = BuildGraph(modules)
    /\ visited' = {}
    /\ rec_stack' = {}
    /\ stack' = <<>>
    /\ k' = 1
    /\ cycle_errors' = <<>>
    /\ pc' = "cycles_for"
    /\ UNCHANGED <<main_vars, errors, all_errors, raised, result, visualize, orphan_vars>>

\* Mutant of CyclesFor: visited = set() inside the for loop, so that every
\* module starts a traversal with nothing visited.
CyclesFor_FreshVisited ==
    /\ pc = "cycles_for"
    /\ k <= Len(order)
    /\ visited' = {order[k]}
    /\ rec_stack' = {order[k]}
    /\ stack' = <<Frame(order[k])>>
    /\ pc' = "has_cycle"
    /\ UNCHANGED <<main_vars, errors, all_errors, raised, result, visualize, graph,
                   k, cycle_errors, orphan_vars>>

\* for module_id in graph: if module_id not in visited: has_cycle(module_id, visited, set())
\* The call enters has_cycle: visited.add(node), rec_stack.add(node).
CyclesFor ==
    /\ pc = "cycles_for"
    /\ k <= Len(order)
    /\ LET module_id == order[k]
       IN  IF module_id \notin visited
           THEN /\ visited' = visited \cup {module_id}
                /\ rec_stack' = {module_id}
                /\ stack' = <<Frame(module_id)>>
                /\ pc' = "has_cycle"
                /\ UNCHANGED k
           ELSE /\ k' = k + 1
                /\ UNCHANGED <<visited, rec_stack, stack, pc>>
    /\ UNCHANGED <<main_vars, errors, all_errors, raised, result, visualize, graph,
                   cycle_errors, orphan_vars>>

\* The frame of the running call, its for loop having taken neighbor.
Taken(neighbor) ==
    [stack EXCEPT ![Len(stack)].todo = stack[Len(stack)].todo \ {neighbor}]

\* Mutant of HasCycleDescend: rec_stack.add(node) is left out for the neighbor
\* that is entered, so an edge back to it is taken for an edge to a finished node.
HasCycleDescend_NoRecStack ==
    /\ pc = "has_cycle"
    /\ \E neighbor \in stack[Len(stack)].todo :
        /\ neighbor \notin visited
        /\ IF Len(stack) < RecursionLimit
           THEN /\ visited' = visited \cup {neighbor}
                /\ stack' = Append(Taken(neighbor), Frame(neighbor))
                /\ UNCHANGED <<pc, raised, result, rec_stack>>
           ELSE /\ Unexpected("RecursionError: maximum recursion depth exceeded")
                /\ UNCHANGED <<visited, rec_stack, stack>>
    /\ UNCHANGED <<main_vars, errors, all_errors, visualize, graph, k, cycle_errors, orphan_vars>>

\* if neighbor not in visited: has_cycle(neighbor, visited, rec_stack).  The
\* call beyond the recursion limit raises RecursionError, which no caller
\* catches before the handler of main.
HasCycleDescend ==
    /\ pc = "has_cycle"
    /\ \E neighbor \in stack[Len(stack)].todo :
        /\ neighbor \notin visited
        /\ IF Len(stack) < RecursionLimit
           THEN /\ visited' = visited \cup {neighbor}
                /\ rec_stack' = rec_stack \cup {neighbor}
                /\ stack' = Append(Taken(neighbor), Frame(neighbor))
                /\ UNCHANGED <<pc, raised, result>>
           ELSE /\ Unexpected("RecursionError: maximum recursion depth exceeded")
                /\ UNCHANGED <<visited, rec_stack, stack>>
    /\ UNCHANGED <<main_vars, errors, all_errors, visualize, graph, k, cycle_errors,
                   orphan_vars>>

\* Mutant of HasCycleBackEdge: every neighbor already visited counts as a
\* back-edge (the test of rec_stack forgotten).
HasCycleBackEdge_Visited ==
    /\ pc = "has_cycle"
    /\ \E neighbor \in stack[Len(stack)].todo : neighbor \in visited
    /\ stack' = <<>>
    /\ cycle_errors' = Append(cycle_errors, CircularDependency(order[k]))
    /\ k' = k + 1
    /\ pc' = "cycles_for"
    /\ UNCHANGED <<main_vars, errors, all_errors, raised, result, visualize, graph,
                   visited, rec_stack, orphan_vars>>

\* Mutant of HasCycleBackEdge: the finding names the module at which the edge
\* back into the recursion stack was met, not the module the traversal started at.
HasCycleBackEdge_NamesNode ==
    /\ pc = "has_cycle"
    /\ \E neighbor \in stack[Len(stack)].todo :
        /\ neighbor \in visited
        /\ neighbor \in rec_stack
    /\ stack' = <<>>
    /\ cycle_errors' = Append(cycle_errors, CircularDependency(stack[Len(stack)].node))
    /\ k' = k + 1
    /\ pc' = "cycles_for"
    /\ UNCHANGED <<main_vars, errors, all_errors, raised, result, visualize, graph,
                   visited, rec_stack, orphan_vars>>

\* elif neighbor in rec_stack: return True.  Every caller returns True in turn
\* and detect_cycles appends the finding for the module the traversal started at.
HasCycleBackEdge ==
    /\ pc = "has_cycle"
    /\ \E neighbor \in stack[Len(stack)].todo :
        /\ neighbor \in visited
        /\ neighbor \in rec_stack
    /\ stack' = <<>>
    /\ cycle_errors' = Append(cycle_errors, CircularDependency(order[k]))
    /\ k' = k + 1
    /\ pc' = "cycles_for"
    /\ UNCHANGED <<main_vars, errors, all_errors, raised, result, visualize, graph,
                   visited, rec_stack, orphan_vars>>

\* Mutant of HasCycleSkip: only rec_stack is tested, so a neighbor that is
\* visited and not on the recursion stack is entered again.
HasCycleSkip_Reenter ==
    /\ pc = "has_cycle"
    /\ \E neighbor \in stack[Len(stack)].todo :
        /\ neighbor \in visited
        /\ neighbor \notin rec_stack
        /\ rec_stack' = rec_stack \cup {neighbor}
        /\ stack' = Append(Taken(neighbor), Frame(neighbor))
    /\ UNCHANGED <<main_vars, pc, errors, all_errors, raised, result, visualize, graph,
                   visited, k, cycle_errors, orphan_vars>>

\* A neighbor that is visited and not on the recursion stack: the loop goes on.
HasCycleSkip ==
    /\ pc = "has_cycle"
    /\ \E neighbor \in stack[Len(stack)].todo :
        /\ neighbor \in visited
        /\ neighbor \notin rec_stack
        /\ stack' = Taken(neighbor)
    /\ UNCHANGED <<main_vars, pc, errors, all_errors, raised, result, visualize, graph,
                   visited, rec_stack, k, cycle_errors, orphan_vars>>

\* rec_stack.remove(node); return False
HasCycleReturn ==
    /\ pc = "has_cycle"
    /\ stack[Len(stack)].todo = {}
    /\ rec_stack' = rec_stack \ {stack[Len(stack)].node}
    /\ stack' = SubSeq(stack, 1, Len(stack) - 1)
    /\ IF Len(stack) = 1
       THEN /\ k' = k + 1
            /\ pc' = "cycles_for"
       ELSE UNCHANGED <<k, pc>>
    /\ UNCHANGED <<main_vars, errors, all_errors, raised, result, visualize, graph,
                   visited, cycle_errors, orphan_vars>>

\* return errors
CyclesReturn ==
    /\ pc = "cycles_for"
    /\ k > Len(order)
    /\ Return("cycles", cycle_errors, "orphans")
    /\ UNCHANGED <<main_vars, raised, result, visualize, graph, cycle_vars, orphan_vars>>

\* detect_cycles as a function of the registry, of the order of its keys and of
\* the order nbrs[node] in which the for loop of has_cycle takes the neighbors
\* of each node, for the registries whose chains stay within the recursion
\* limit.  has_cycle returns its value together with the two sets it has
\* updated in place.
RECURSIVE has_cycle(_, _, _, _)
RECURSIVE has_cycle_for(_, _, _, _, _)
has_cycle_for(nbrs, node, n, vis, rs) ==
    LET todo == IF node \in DOMAIN nbrs THEN nbrs[node] ELSE <<>>
    IN  IF n > Len(todo)
        THEN [found |-> FALSE, visited |-> vis, rec_stack |-> rs \ {node}]
        ELSE LET neighbor == todo[n]
             IN  IF neighbor \notin vis
                 THEN LET r == has_cycle(nbrs, neighbor, vis, rs)
                      IN  IF r.found THEN r
                          ELSE has_cycle_for(nbrs, node, n + 1, r.visited, r.rec_stack)
                 ELSE IF neighbor \in rs
                      THEN [found |-> TRUE, visited |-> vis, rec_stack |-> rs]
                      ELSE has_cycle_for(nbrs, node, n + 1, vis, rs)

has_cycle(nbrs, node, vis, rs) ==
    has_cycle_for(nbrs, node, 1, vis \cup {node}, rs \cup {node})

RECURSIVE detect_cycles_for(_, _, _, _, _)
detect_cycles_for(mods, keys, nbrs, vis, errs) ==
    IF keys = <<>> THEN errs
    ELSE LET module_id == Head(keys)
             r == has_cycle(nbrs, module_id, vis, {})
         IN  IF module_id \in vis
             THEN detect_cycles_for(mods, Tail(keys), nbrs, vis, errs)
             ELSE detect_cycles_for(mods, Tail(keys), nbrs, r.visited,
                      IF r.found
                      THEN Append(errs, Finding("CircularDependency", module_id,
                                                Title(mods[module_id]), NoneId,
                                                <<>>, <<>>, <<>>))
                      ELSE errs)

detect_cycles(mods, keys, nbrs) == detect_cycles_for(mods, keys, nbrs, {}, <<>>)


\* ------------------------------------------------------------- detect_orphans
\* Mutant of Foundation: a prerequisite that is no key of the graph does not
\* count, so a module with only dangling prerequisites is a foundation module.
Foundation_IgnoreDangling(g) == {mid \in DOMAIN g : g[mid] \cap DOMAIN g = {}}

\* foundation_modules = {mid for mid, prereqs in graph.items() if not prereqs}
Foundation(g) == {mid \in DOMAIN g : g[mid] = {}}

\* Mutant of Satisfied: one reachable prerequisite is enough (any for all).
Satisfied_Any(prereqs, reached) == prereqs \cap reached # {}

\* prereqs.issubset(reachable)
Satisfied(prereqs, reached) == prereqs \subseteq reached

NoFoundationModules ==
    Finding("NoFoundationModules", NoneId, NoneStr, NoneId, <<>>, <<>>, <<>>)

\* The one finding that lists every orphaned module (sorted) and the foundation.
OrphanedModule(orphaned, foundation) ==
    Finding("OrphanedModule", NoneId, NoneStr, NoneId, <<>>, sorted(orphaned),
            sorted(foundation))

\* detect_orphans as a function of the registry: one pass of the for loop over
\* the keys left, the passes repeated until one adds no module, and the list
\* returned.
RECURSIVE Pass(_, _, _)
Pass(g, keys, reached) ==
    IF keys = <<>> THEN reached
    ELSE LET mid == Head(keys)
         IN  Pass(g, Tail(keys),
                  IF mid \notin reached /\ Satisfied(g[mid], reached)
                  THEN reached \cup {mid}
                  ELSE reached)

RECURSIVE Expand(_, _, _)
Expand(g, keys, reached) ==
    LET next == Pass(g, keys, reached)
    IN  IF next = reached THEN reached ELSE Expand(g, keys, next)

detect_orphans(mods, keys) ==
    LET g == BuildGraph(mods)
        foundation == Foundation(g)
        orphaned == DOMAIN g \ Expand(g, keys, foundation)
    IN  IF foundation = {} THEN <<NoFoundationModules>>
        ELSE IF orphaned # {} THEN <<OrphanedModule(orphaned, foundation)>>
        ELSE <<>>

\* Mutant of OrphansStart: the test 'if not foundation_modules' and its early
\* return are missing.
OrphansStart_NoTest ==
    /\ pc = "orphans"
    /\ graph' = BuildGraph(modules)
    /\ foundation_modules' = Foundation(graph')
    /\ reachable' = foundation_modules'
    /\ changed' = TRUE
    /\ j' = 1
    /\ pc' = "orphans_while"
    /\ UNCHANGED <<main_vars, errors, all_errors, raised, result, visualize, cycle_vars>>

\* errors = []; graph = ...; foundation_modules = ...; the early return without
\* a foundation module; reachable = foundation_modules.copy(); changed = True
OrphansStart ==
    /\ pc = "orphans"
    /\ graph' = BuildGraph(modules)
    /\ foundation_modules' = Foundation(graph')
    /\ IF foundation_modules' = {}
       THEN /\ Return("orphans", <<NoFoundationModules>>, "progression")
            /\ UNCHANGED <<reachable, changed, j>>
       ELSE /\ reachable' = foundation_modules'
            /\ changed' = TRUE
            /\ j' = 1
            /\ pc' = "orphans_while"
            /\ UNCHANGED <<errors, all_errors>>
    /\ UNCHANGED <<main_vars, raised, result, visualize, cycle_vars>>

\* Mutant of OrphansWhile: reachable = set(foundation_modules) is inside the
\* while loop, so every pass starts over from the foundation modules.
OrphansWhile_Restart ==
    /\ pc = "orphans_while"
    /\ changed
    /\ changed' = FALSE
    /\ j' = 1
    /\ reachable' = foundation_modules
    /\ pc' = "orphans_for"
    /\ UNCHANGED <<main_vars, errors, all_errors, raised, result, visualize, graph,
                   cycle_vars, foundation_modules>>

\* while changed: changed = False, and the for loop starts over
OrphansWhile ==
    /\ pc = "orphans_while"
    /\ changed
    /\ changed' = FALSE
    /\ j' = 1
    /\ pc' = "orphans_for"
    /\ UNCHANGED <<main_vars, errors, all_errors, raised, result, visualize, graph,
                   cycle_vars, foundation_modules, reachable>>

\* Mutant of OrphansFor: reachable.add(mid) without changed = True.
OrphansFor_NoFlag ==
    /\ pc = "orphans_for"
    /\ j <= Len(order)
    /\ LET mid == order[j]
       IN  IF mid \notin reachable /\ Satisfied(graph[mid], reachable)
           THEN reachable' = reachable \cup {mid}
           ELSE UNCHANGED reachable
    /\ j' = j + 1
    /\ pc' = IF j = Len(order) THEN "orphans_while" ELSE "orphans_for"
    /\ UNCHANGED <<main_vars, errors, all_errors, raised, result, visualize, graph,
                   cycle_vars, foundation_modules, changed>>

\* One iteration of for mid, prereqs in graph.items()
OrphansFor ==
    /\ pc = "orphans_for"
    /\ j <= Len(order)
    /\ LET mid == order[j]
       IN  IF mid \notin reachable /\ Satisfied(graph[mid], reachable)
           THEN /\ reachable' = reachable \cup {mid}
                /\ changed' = TRUE
           ELSE UNCHANGED <<reachable, changed>>
    /\ j' = j + 1
    /\ pc' = IF j = Len(order) THEN "orphans_while" ELSE "orphans_for"
    /\ UNCHANGED <<main_vars, errors, all_errors, raised, result, visualize, graph,
                   cycle_vars, foundation_modules>>

\* Mutant of OrphansReturn: the analyzers append to one list errors they share,
\* so the list returned holds what detect_cycles has appended so far as well.
OrphansReturn_SharedErrors ==
    /\ pc = "orphans_while"
    /\ ~changed
    /\ LET orphaned == DOMAIN graph \ reachable
       IN  Return("orphans",
                  cycle_errors \o (IF orphaned # {}
                                   THEN <<OrphanedModule(orphaned, foundation_modules)>>
                                   ELSE <<>>),
                  "progression")
    /\ UNCHANGED <<main_vars, raised, result, visualize, graph, cycle_vars, orphan_vars>>

\* The loop has ended: orphaned = set(graph.keys()) - reachable; return errors
OrphansReturn ==
    /\ pc = "orphans_while"
    /\ ~changed
    /\ LET orphaned == DOMAIN graph \ reachable
       IN  Return("orphans",
                  IF orphaned # {}
                  THEN <<OrphanedModule(orphaned, foundation_modules)>>
                  ELSE <<>>,
                  "progression")
    /\ UNCHANGED <<main_vars, raised, result, visualize, graph, cycle_vars, orphan_vars>>

\* ------------------------------------------------- validate_progression_rules
\* Mutant of BreaksRule: the Bloom comparison is not strict.
BreaksRule_NotStrict(curr_bloom_idx, prereq_bloom_idx, curr_scaffolding_val, prereq_scaffolding_val) ==
    /\ curr_bloom_idx >= prereq_bloom_idx
    /\ curr_scaffolding_val < prereq_scaffolding_val

\* curr_bloom_idx > prereq_bloom_idx and curr_scaffolding_val < prereq_scaffolding_val
BreaksRule(curr_bloom_idx, prereq_bloom_idx, curr_scaffolding_val, prereq_scaffolding_val) ==
    /\ curr_bloom_idx > prereq_bloom_idx
    /\ curr_scaffolding_val < prereq_scaffolding_val

\* The body of the inner loop for one prerequisite: TRUE when it appends a finding.
Violation(mods, module_id, prereq_id) ==
    IF prereq_id \notin DOMAIN mods THEN FALSE
    ELSE LET module == mods[module_id]
             prereq == mods[prereq_id]
             curr_bloom == module.bloom_level
             prereq_bloom == prereq.bloom_level
             curr_scaffolding == module.scaffolding_level
             prereq_scaffolding == prereq.scaffolding_level
         IN  IF ~InList(curr_bloom, BLOOM_ORDER) \/ ~InList(prereq_bloom, BLOOM_ORDER)
             THEN FALSE
             ELSE IF \/ curr_scaffolding \notin DOMAIN SCAFFOLDING_VALUE
                     \/ prereq_scaffolding \notin DOMAIN SCAFFOLDING_VALUE
                  THEN FALSE
                  ELSE BreaksRule(Index(BLOOM_ORDER, curr_bloom),
                                  Index(BLOOM_ORDER, prereq_bloom),
                                  SCAFFOLDING_VALUE[curr_scaffolding],
                                  SCAFFOLDING_VALUE[prereq_scaffolding])

ProgressionViolation(mods, module_id, prereq_id) ==
    Finding("ProgressionViolation", module_id, Title(mods[module_id]), prereq_id,
            IF prereq_id \in DOMAIN mods
            THEN <<mods[prereq_id].bloom_level, mods[module_id].bloom_level,
                   mods[prereq_id].scaffolding_level, mods[module_id].scaffolding_level>>
            ELSE <<>>,
            <<>>, <<>>)

\* Mutant of ProgressionErrors: break in place of continue, so the loop over
\* the prerequisites of a module ends at the first edge it skips.
ProgressionErrors_Break(mods, module_id) ==
    LET prereqs == mods[module_id].prerequisites
        Skips(p) ==
            \/ p \notin DOMAIN mods
            \/ ~InList(mods[module_id].bloom_level, BLOOM_ORDER)
            \/ ~InList(mods[p].bloom_level, BLOOM_ORDER)
            \/ mods[module_id].scaffolding_level \notin DOMAIN SCAFFOLDING_VALUE
            \/ mods[p].scaffolding_level \notin DOMAIN SCAFFOLDING_VALUE
        first == {n \in 1..Len(prereqs) :
                     Skips(prereqs[n]) /\ \A m \in 1..(n - 1) : ~Skips(prereqs[m])}
        upto == IF first = {} THEN Len(prereqs) ELSE (CHOOSE n \in first : TRUE) - 1
        all == [n \in 1..upto |-> ProgressionViolation(mods, module_id, prereqs[n])]
    IN  SelectSeq(all, LAMBDA f : Violation(mods, module_id, f.prereq))

ProgressionErrors(mods, module_id) ==
    LET prereqs == mods[module_id].prerequisites
        all == [n \in 1..Len(prereqs) |-> ProgressionViolation(mods, module_id, prereqs[n])]
    IN  SelectSeq(all, LAMBDA f : Violation(mods, module_id, f.prereq))

validate_progression_rules(mods, keys) ==
    Concat([n \in 1..Len(keys) |-> ProgressionErrors(mods, keys[n])])

Progression ==
    /\ pc = "progression"
    /\ Return("progression", validate_progression_rules(modules, order), "report")
    /\ UNCHANGED <<main_vars, raised, result, visualize, graph, cycle_vars, orphan_vars>>

\* ---------------------------------------------------------- main, the report
\* The report is printed; --visualize, when given, renders the graph or is
\* skipped on ImportError; return 0 if len(all_errors) == 0 else 1
Report ==
    /\ pc = "report"
    /\ visualize' \in {"off", "rendered", "skipped"}
    /\ result' = IF Len(all_errors) = 0 THEN 0 ELSE 1
    /\ pc' = "done"
    /\ UNCHANGED <<main_vars, errors, all_errors, raised, graph, cycle_vars, orphan_vars>>

\* ------------------------------------------------ overlapping analyzer calls
\* The three calls of main on the loaded registry that the cycle, reachability
\* and progression analyzers answer, in the order main makes them.
Concurrent == <<"cycles", "orphans", "progression">>

\* The statements of each analyzer: the values pc takes inside its call.
Steps(analyzer) ==
    CASE analyzer = "cycles" -> {"cycles", "cycles_for", "has_cycle"}
      [] analyzer = "orphans" -> {"orphans", "orphans_while", "orphans_for"}
      [] analyzer = "progression" -> {"progression"}

\* The three calls are started together instead of one after the other: each
\* call is at its first statement, and the cycle analyzer runs first.
Fork ==
    /\ pc = "cycles"
    /\ threads = NoThreads
    /\ threads' = [running |-> "cycles",
                   at |-> [a \in Range(Concurrent) |-> a]]
    /\ UNCHANGED <<dir_state, module_dirs, pc, i, modules, order, warnings, errors,
                   all_errors, raised, result, visualize, graph, cycle_vars,
                   orphan_vars>>

\* The running call is the given one and has not returned.
Runs(analyzer) == threads.running = analyzer /\ pc \in Steps(analyzer)

\* The running call is suspended where it stands (or has returned) and another
\* call that has not returned goes on from where it was suspended.
Switch ==
    /\ threads # NoThreads
    /\ raised = NoException
    /\ \E to \in Range(Concurrent) \ {threads.running} :
        /\ threads.at[to] \in Steps(to)
        /\ threads' = [running |-> to,
                       at |-> [threads.at EXCEPT ![threads.running] =
                                  IF pc \in Steps(threads.running)
                                  THEN pc ELSE "returned"]]
        /\ pc' = threads.at[to]
    /\ UNCHANGED <<dir_state, module_dirs, i, modules, order, warnings, errors,
                   all_errors, raised, result, visualize, graph, cycle_vars,
                   orphan_vars>>

\* The three calls have returned: main takes up again and goes on to the report.
Join ==
    /\ threads # NoThreads
    /\ raised = NoException
    /\ threads.running \in Range(Concurrent)
    /\ pc \notin Steps(threads.running)
    /\ \A a \in Range(Concurrent) \ {threads.running} : threads.at[a] = "returned"
    /\ threads' = [running |-> "main", at |-> [a \in Range(Concurrent) |-> "returned"]]
    /\ pc' = "report"
    /\ UNCHANGED <<dir_state, module_dirs, i, modules, order, warnings, errors,
                   all_errors, raised, result, visualize, graph, cycle_vars,
                   orphan_vars>>

\* main with the three calls overlapping: a statement of an analyzer is taken
\* by the call that runs.
NextParallel ==
    \/ MainStart
    \/ DiscoverStep
    \/ DiscoverReturn
    \/ References
    \/ Fork
    \/ Switch
    \/ Runs("cycles") /\ CyclesStart
    \/ Runs("cycles") /\ CyclesFor
    \/ Runs("cycles") /\ HasCycleDescend
    \/ Runs("cycles") /\ HasCycleBackEdge
    \/ Runs("cycles") /\ HasCycleSkip
    \/ Runs("cycles") /\ HasCycleReturn
    \/ Runs("cycles") /\ CyclesReturn
    \/ Runs("orphans") /\ OrphansStart
    \/ Runs("orphans") /\ OrphansWhile
    \/ Runs("orphans") /\ OrphansFor
    \/ Runs("orphans") /\ OrphansReturn
    \/ Runs("progression") /\ Progression
    \/ Join
    \/ threads.running = "main" /\ Report


\* ------------------------------------------------- the prerequisite relation
\* The prerequisites of n: the modules n depends on directly.
Prereqs(mods, n) == IF n \in DOMAIN mods THEN Range(mods[n].prerequisites) ELSE {}

\* Everything reached from the identifiers of S by zero or more prerequisite hops.
RECURSIVE ReachFrom(_, _)
ReachFrom(mods, S) ==
    LET T == S \cup UNION {Prereqs(mods, n) : n \in S}
    IN  IF T = S THEN S ELSE ReachFrom(mods, T)

\* n lies on a circular dependency chain (a self-reference included).
OnCycle(mods, n) == \E p \in Prereqs(mods, n) : n \in ReachFrom(mods, {p})

\* The cycles of the graph: lists of distinct modules, each depending on the
\* next and the last on the first.
Cycles(mods) ==
    {c \in UNION {[1..n -> DOMAIN mods] : n \in 1..Cardinality(DOMAIN mods)} :
        /\ \A a, b \in 1..Len(c) : a # b => c[a] # c[b]
        /\ \A a \in 1..Len(c) : c[(a % Len(c)) + 1] \in Prereqs(mods, c[a])}

\* A prerequisite identifier of some module that is no key of the registry.
Dangling(mods) == UNION {Prereqs(mods, n) : n \in DOMAIN mods} \ DOMAIN mods

\* The analyzer has returned its list to main.
Returned(analyzer) == analyzer \in DOMAIN errors

\* The modules named by the CircularDependency findings of detect_cycles.
CycleNamed == {errors["cycles"][n].module : n \in 1..Len(errors["cycles"])}

\* C1: for every cycle of the prerequisite graph, detect_cycles returns a
\* CircularDependency finding naming a module that lies on that cycle.
C1_EveryCycleHasNamedModule ==
    Returned("cycles") =>
        \A c \in Cycles(modules) : CycleNamed \cap Range(c) # {}

\* C2: the modules named by the CircularDependency findings are exactly the
\* modules that lie on some circular dependency chain.
C2_NamedAreExactlyCycleModules ==
    Returned("cycles") =>
        CycleNamed = {n \in DOMAIN modules : OnCycle(modules, n)}


\* The modules detect_orphans reported as unreachable (none when it returned
\* no OrphanedModule finding).
OrphanNamed ==
    UNION {Range(errors["orphans"][n].orphaned) : n \in 1..Len(errors["orphans"])}

\* detect_orphans has returned for a registry with a foundation module.
OrphansAnalyzed == Returned("orphans") /\ Foundation(BuildGraph(modules)) # {}

\* n reaches a foundation module by zero or more prerequisite hops.
ReachesFoundation(mods, n) ==
    ReachFrom(mods, {n}) \cap Foundation(BuildGraph(mods)) # {}

\* Every prerequisite chain of n stays in the registry and off every cycle, so
\* that each chain ends in a foundation module.
Grounded(mods, n) ==
    \A p \in ReachFrom(mods, {n}) : p \in DOMAIN mods /\ ~OnCycle(mods, p)

\* C3 as stated, on the registries without dangling prerequisites: with a
\* foundation module, a module is reported as orphaned exactly when it reaches
\* no foundation module by prerequisite hops.
C3_OrphanedIffNoPathToFoundation ==
    (OrphansAnalyzed /\ Dangling(modules) = {}) =>
        \A n \in DOMAIN modules :
            n \in OrphanNamed <=> ~ReachesFoundation(modules, n)

\* C3 amended: with a foundation module, a module is reported as orphaned
\* exactly when some prerequisite chain of it leads to a cycle or to an
\* identifier outside the registry; a module that reaches no foundation module
\* is therefore always reported, and a module none of whose chains leads there
\* never is.
C3_OrphanedIffNotGrounded ==
    OrphansAnalyzed =>
        \A n \in DOMAIN modules :
            /\ n \in OrphanNamed <=> ~Grounded(modules, n)
            /\ ~ReachesFoundation(modules, n) => n \in OrphanNamed

\* C3 witness: a module with one foundation prerequisite and one prerequisite
\* lying on a cycle, one hop from the foundation and reported as orphaned, next
\* to a foundation module, not reported.
C3_Witness ==
    /\ OrphansAnalyzed
    /\ \E n \in DOMAIN modules :
        /\ \E f, c \in Prereqs(modules, n) :
            /\ f \in Foundation(BuildGraph(modules))
            /\ c \in DOMAIN modules /\ OnCycle(modules, c)
        /\ ReachesFoundation(modules, n)
        /\ n \in OrphanNamed
    /\ \E n \in DOMAIN modules : Prereqs(modules, n) = {} /\ n \notin OrphanNamed


\* The (module, prerequisite) pairs the findings of one kind of an analyzer name.
Pairs(analyzer, kind) ==
    {<<errors[analyzer][n].module, errors[analyzer][n].prereq>> :
        n \in {a \in 1..Len(errors[analyzer]) : errors[analyzer][a].kind = kind}}

\* The direct prerequisite edges (M, P) of the registry.
Edges(mods) == {e \in (DOMAIN mods) \X Ids : e[2] \in Prereqs(mods, e[1])}

\* The complexity index c and the support index s of a level of the enumerations.
c(level) == CHOOSE n \in 1..Len(BLOOM_ORDER) : BLOOM_ORDER[n] = level

s(level) == SCAFFOLDING_VALUE[level]

\* Both levels of the module are values of the fixed enumerations.
WellTyped(metadata) ==
    /\ metadata.bloom_level \in Range(BLOOM_ORDER)
    /\ metadata.scaffolding_level \in DOMAIN SCAFFOLDING_VALUE

\* C4: for every edge (M, P) with P in the registry and both modules carrying
\* levels of the enumerations, validate_progression_rules reports a
\* ProgressionViolation for (M, P) if and only if c(M) > c(P) and s(M) < s(P).
C4_ViolationIffHarderWithLessSupport ==
    Returned("progression") =>
        \A e \in Edges(modules) :
            LET M == modules[e[1]]
                P == modules[e[2]]
            IN  (e[2] \in DOMAIN modules /\ WellTyped(M) /\ WellTyped(P)) =>
                    (e \in Pairs("progression", "ProgressionViolation") <=>
                        (/\ c(M.bloom_level) > c(P.bloom_level)
                         /\ s(M.scaffolding_level) < s(P.scaffolding_level)))

\* C4 witness: module 1 (Create, LOW) depends on module 0 (Remember, HIGH) and
\* is reported, while module 0 depends on module 1 and is not.
C4_Witness ==
    /\ Returned("progression")
    /\ Edges(modules) = {<<0, 1>>, <<1, 0>>}
    /\ modules[0].bloom_level = "Remember" /\ modules[0].scaffolding_level = "HIGH"
    /\ modules[1].bloom_level = "Create" /\ modules[1].scaffolding_level = "LOW"
    /\ Pairs("progression", "ProgressionViolation") = {<<1, 0>>}

\* C5: validate_prerequisite_references reports DanglingPrerequisite(m, p) for
\* every module m and every p in its prerequisites that is no key of the
\* registry, and for no other pair: not for a prerequisite that is a key, and
\* not for an identifier m only reaches through another module.
C5_DanglingIffEdgeToMissingKey ==
    Returned("references") =>
        /\ \A n \in 1..Len(errors["references"]) :
            errors["references"][n].kind = "DanglingPrerequisite"
        /\ Pairs("references", "DanglingPrerequisite") =
            {e \in Edges(modules) : e[2] \notin DOMAIN modules}

\* C5 witness: module m lists the key p only and p lists the missing identifier
\* d only: the one finding is (p, d), none for the key p nor for the path m, d.
C5_Witness ==
    /\ Returned("references")
    /\ \E m, p \in DOMAIN modules : \E d \in Dangling(modules) :
        /\ m # p
        /\ Prereqs(modules, m) = {p}
        /\ Prereqs(modules, p) = {d}
        /\ Pairs("references", "DanglingPrerequisite") = {<<p, d>>}


\* The registry with every dangling identifier removed from each prerequisites list.
Resolved(mods) ==
    [m \in DOMAIN mods |->
        [mods[m] EXCEPT !.prerequisites = SelectSeq(@, LAMBDA p : p \in DOMAIN mods)]]

\* C6, for detect_orphans on the registries with a foundation module: its
\* findings equal its findings on the registry with the dangling identifiers
\* removed, so a module all of whose prerequisites dangle is not reported.
C6_OrphansIgnoreDanglingEdges ==
    OrphansAnalyzed =>
        errors["orphans"] = detect_orphans(Resolved(modules), order)

\* ------------------------------------------------------ claims on the loader
\* The directory at position n holds a METADATA record.
IsRecord(n) == module_dirs[n].form = "ok"

\* The record lacks a required field or carries a value of the wrong type.
Malformed(metadata) ==
    \/ metadata.id = NoneId
    \/ metadata.title = NoneStr
    \/ metadata.bloom_level \notin Range(BLOOM_ORDER)
    \/ metadata.scaffolding_level \notin DOMAIN SCAFFOLDING_VALUE
    \/ metadata.ptype # "list"

\* Two records share an id.
SharedId ==
    \E a, b \in 1..Len(module_dirs) :
        /\ a # b /\ IsRecord(a) /\ IsRecord(b)
        /\ module_dirs[a].meta.id # NoneId
        /\ module_dirs[a].meta.id = module_dirs[b].meta.id

\* discover_modules has returned its mapping to main.
Discovered == pc \notin {"main", "discover"} /\ raised # "ValueError: No modules found"

\* The record at position n is the one the registry holds under its id.
InRegistry(n) ==
    LET metadata == module_dirs[n].meta
    IN  metadata.id \in DOMAIN modules /\ modules[metadata.id] = metadata

\* The load reported the directory at position n (a printed warning; main has
\* no finding list for the loader).
Reported(n) == \E w \in 1..Len(warnings) : warnings[w].dir = n

\* A record was dropped at load time: it shares its id with an earlier record
\* or it has no id.
Dropped ==
    \E w \in 1..Len(warnings) : warnings[w].kind \in {"Duplicate module ID", "missing_id"}

\* C7, for the runs that reached the report: main returns 0 if and only if no
\* finding was produced, and no record was dropped at load time as duplicate
\* or malformed.
C7_ValidIffNoFinding ==
    (pc = "done" /\ Returned("progression")) =>
        (result = 0 <=> (all_errors = <<>> /\ ~Dropped))

\* C8: when two records share an id, discover_modules fails and returns no mapping.
C8_SharedIdFailsTheLoad ==
    SharedId => ~Discovered

\* C9: once the load is over, a malformed record is not in the registry and was
\* reported, a well-formed record whose id no other record carries is in the
\* registry, and the registry, unless empty, is analyzed to the end.
C9_MalformedExcludedRestAnalyzed ==
    /\ Discovered =>
        \A n \in 1..Len(module_dirs) :
            /\ (IsRecord(n) /\ Malformed(module_dirs[n].meta)) =>
                    (~InRegistry(n) /\ Reported(n))
            /\ (IsRecord(n) /\ ~Malformed(module_dirs[n].meta) /\ ~SharedId) =>
                    InRegistry(n)
    /\ (pc = "done" /\ modules # <<>>) => Returned("progression")

\* C10: a run over a non-empty registry executes the four analyzers and its
\* finding list is the concatenation of their four results.
C10_AllAnalyzersRunAndAccumulate ==
    (pc = "done" /\ modules # <<>>) =>
        /\ \A a \in Range(Analyzers) : Returned(a)
        /\ all_errors = Concat([a \in 1..Len(Analyzers) |-> errors[Analyzers[a]]])

\* ------------------------------------------------- claims on traversal order
\* The lists that enumerate the set S, each element once.
Orderings(S) == {q \in [1..Cardinality(S) -> S] : Range(q) = S}

\* One order of iteration for the adjacency set of every node of the graph.
NeighborOrders(g) ==
    {nbrs \in [DOMAIN g -> UNION {Orderings(g[mid]) : mid \in DOMAIN g}] :
        \A mid \in DOMAIN g : nbrs[mid] \in Orderings(g[mid])}

\* C11: the findings each analyzer returned are the findings it returns for
\* the same registry under every other order of iteration of the modules and,
\* for detect_cycles, of the prerequisites of each module.
C11_FindingsIndependentOfOrder ==
    \A keys \in Orderings(Range(order)) :
        /\ Returned("references") =>
            Range(validate_prerequisite_references(modules, keys))
                = Range(errors["references"])
        /\ Returned("cycles") =>
            \A nbrs \in NeighborOrders(BuildGraph(modules)) :
                Range(detect_cycles(modules, keys, nbrs)) = Range(errors["cycles"])
        /\ Returned("orphans") =>
            Range(detect_orphans(modules, keys)) = Range(errors["orphans"])
        /\ Returned("progression") =>
            Range(validate_progression_rules(modules, keys))
                = Range(errors["progression"])

\* No module of the registry lies on a circular dependency chain.
Acyclic(mods) == \A n \in DOMAIN mods : ~OnCycle(mods, n)

\* The registry is acyclic, has a foundation module and no dangling reference.
Clean(mods) ==
    /\ Acyclic(mods)
    /\ Foundation(BuildGraph(mods)) # {}
    /\ Dangling(mods) = {}

\* The kinds of the findings the analyzer returned.
Kinds(analyzer) == {errors[analyzer][n].kind : n \in 1..Len(errors[analyzer])}

\* C12: for an acyclic registry with a foundation module and no dangling
\* reference, detect_cycles returns no CircularDependency finding and
\* validate_prerequisite_references returns no DanglingPrerequisite finding.
C12_CleanRegistryNoCycleNoDangling ==
    Clean(modules) =>
        /\ Returned("references") => "DanglingPrerequisite" \notin Kinds("references")
        /\ Returned("cycles") => "CircularDependency" \notin Kinds("cycles")

\* C12 witness: two modules, the second depending on the first, both analyzers
\* returned: the traversal from the second met the first already visited.
C12_Witness ==
    /\ Returned("references") /\ Returned("cycles")
    /\ Clean(modules)
    /\ Edges(modules) = {<<1, 0>>}
    /\ visited = {0, 1}
    /\ errors["cycles"] = <<>> /\ errors["references"] = <<>>
\* C13: once discover_modules has returned, no step of the run (the four
\* analyzers, the report) changes the registry: the mapping id -> module,
\* every field of every module and the order of the keys stay as loaded.
C13_AnalyzersLeaveRegistryUnchanged ==
    [][Discovered => (modules' = modules /\ order' = order)]_vars

\* C13 witness: the four analyzers have returned, with findings about a
\* dangling prerequisite, and the registry holds every record as it was loaded.
C13_Witness ==
    /\ pc = "done"
    /\ \A a \in Range(Analyzers) : Returned(a)
    /\ Dangling(modules) # {}
    /\ all_errors # <<>>
    /\ Len(module_dirs) >= MaxModules
    /\ \A n \in 1..Len(module_dirs) : InRegistry(n)
\* The error lines main prints in place of a report: one per early return.
Notes ==
    (IF pc = "done" /\ dir_state # "ok" THEN {dir_state} ELSE {})
    \cup (IF raised # NoException THEN {raised} ELSE {})
    \cup (IF pc = "done" /\ dir_state = "ok" /\ raised = NoException /\ modules = <<>>
          THEN {"No valid modules found"}
          ELSE {})

\* C14: a run that loaded no module runs no analyzer, produces no finding,
\* prints exactly one note and returns 1; every other run carries out the
\* graph analysis: each of the four analyzers returns.
C14_OnlyEmptyRegistrySkipsAnalysis ==
    pc = "done" =>
        IF modules = <<>>
        THEN /\ \A a \in Range(Analyzers) : ~Returned(a)
             /\ all_errors = <<>>
             /\ Cardinality(Notes) = 1
             /\ result = 1
        ELSE \A a \in Range(Analyzers) : Returned(a)
\* C15: detect_cycles never raises: a run that has called it and is over got
\* its list of findings back.
C15_DetectCyclesReturns ==
    (pc = "done" /\ Returned("references")) => Returned("cycles")
\* The modules of the registry form one simple cycle: each has exactly one
\* prerequisite and each is reached from each.
SimpleCycle(mods) ==
    /\ mods # <<>>
    /\ \A n \in DOMAIN mods :
        /\ Cardinality(Prereqs(mods, n)) = 1
        /\ ReachFrom(mods, {n}) = DOMAIN mods

\* C16: for a registry whose modules form one simple cycle, detect_cycles
\* returns exactly one finding, a CircularDependency naming a module of the
\* cycle.
C16_SimpleCycleOneFinding ==
    (Returned("cycles") /\ SimpleCycle(modules)) =>
        /\ Len(errors["cycles"]) = 1
        /\ errors["cycles"][1].kind = "CircularDependency"
        /\ errors["cycles"][1].module \in DOMAIN modules
        /\ OnCycle(modules, errors["cycles"][1].module)

\* C16 witness: module 0 with prerequisite 1, module 1 with prerequisite 0, and
\* the one finding naming module 0.
C16_Witness ==
    /\ Returned("cycles")
    /\ DOMAIN modules = {0, 1}
    /\ modules[0].prerequisites = <<1>> /\ modules[1].prerequisites = <<0>>
    /\ Len(errors["cycles"]) = 1
    /\ errors["cycles"][1].module = 0
\* ------------------------------------------- claims on the fixed-point loop
\* S contains every foundation module and every module all of whose
\* prerequisites are in S.
Closed(mods, S) ==
    /\ Foundation(BuildGraph(mods)) \subseteq S
    /\ \A m \in DOMAIN mods : Prereqs(mods, m) \subseteq S => m \in S

\* The least such set.
LeastR(mods) ==
    CHOOSE S \in SUBSET DOMAIN mods :
        /\ Closed(mods, S)
        /\ \A T \in SUBSET DOMAIN mods : Closed(mods, T) => S \subseteq T

\* The while loop of detect_orphans is at its test and the test fails.
LoopStops == pc = "orphans_while" /\ ~changed

\* C17: with a foundation module, the modules detect_orphans reports are the
\* modules of the registry outside the least set R; the loop stops only after
\* a full pass over the registry that added no module; and it always stops.
C17_OrphansAreComplementOfLeastSet ==
    /\ [](OrphansAnalyzed => OrphanNamed = DOMAIN modules \ LeastR(modules))
    /\ [](LoopStops => (j = Len(order) + 1 /\ Pass(graph, order, reachable) = reachable))
    /\ (pc = "orphans_while") ~> Returned("orphans")

\* C17 witness: the loop has stopped and detect_orphans has returned; a module
\* that is no foundation module was added to the reachable set, another was
\* not and is reported.
C17_Witness ==
    /\ OrphansAnalyzed
    /\ reachable \ foundation_modules # {}
    /\ OrphanNamed # {}
    /\ OrphanNamed = DOMAIN modules \ reachable
\* C18: for a registry without a foundation module, detect_orphans never
\* enters its while loop, adds nothing to the reachable set and returns the one
\* finding NoFoundationModules, no OrphanedModule finding among its findings.
C18_NoFoundationOneFindingNoExpansion ==
    (Discovered /\ Foundation(BuildGraph(modules)) = {}) =>
        /\ pc \notin {"orphans_while", "orphans_for"}
        /\ reachable = {}
        /\ Returned("orphans") =>
            /\ Len(errors["orphans"]) = 1
            /\ Kinds("orphans") = {"NoFoundationModules"}
            /\ OrphanNamed = {}

\* C18 witness: two modules or more, each with a prerequisite, and
\* detect_orphans has returned its one finding.
C18_Witness ==
    /\ Returned("orphans")
    /\ Cardinality(DOMAIN modules) >= 2
    /\ \A n \in DOMAIN modules : Prereqs(modules, n) # {}
    /\ errors["orphans"] = <<NoFoundationModules>>
    /\ reachable = {}
\* ------------------------------------------------- claims on the traversal
\* C19: every module a CircularDependency finding names lies on a cycle; a
\* module that only depends on a cycle is not named.
C19_NamedModulesLieOnCycle ==
    Returned("cycles") => \A n \in CycleNamed : OnCycle(modules, n)

\* The step is a call of has_cycle(n, ...): a frame for n is pushed.
Entered(n) == Len(stack') = Len(stack) + 1 /\ stack'[Len(stack')].node = n

\* The identifiers of the graph: its keys and the members of its adjacency sets.
Nodes == DOMAIN graph \cup UNION {graph[mid] : mid \in DOMAIN graph}

\* C20: has_cycle is called only for an identifier that is not visited, the
\* call marks it, nothing else marks an identifier and no mark is ever taken
\* back, so no identifier is entered twice, a module of a traversal cut short
\* included; the outer loop calls has_cycle for every module it finds not
\* visited; and when detect_cycles returns every module of the registry is
\* visited.
C20_EveryModuleEnteredOnce ==
    /\ [][\A n \in Nodes : Entered(n) => (n \notin visited /\ n \in visited')]_vars
    /\ [][\A n \in visited' \ visited : Entered(n)]_vars
    /\ [][visited \subseteq visited']_vars
    /\ [][(pc = "cycles_for" /\ k <= Len(order) /\ order[k] \notin visited)
            => Entered(order[k])]_vars
    /\ [](Returned("cycles") => DOMAIN modules \subseteq visited)

\* C20 witness: the traversal from module 0 was cut short at the self-reference
\* of module 1; module 2, in no traversal so far, started its own, met module 1
\* visited and left it alone; detect_cycles returned with the three visited.
C20_Witness ==
    /\ Returned("cycles")
    /\ DOMAIN modules = {0, 1, 2}
    /\ \A n \in DOMAIN modules : modules[n].prerequisites = <<1>>
    /\ visited = {0, 1, 2}
    /\ CycleNamed = {0}
\* ------------------------------------------- claims on the skipped edges
\* Every direct prerequisite edge (M, P) of the registry, P a key or not.
AllEdges(mods) == UNION {{<<m, p>> : p \in Prereqs(mods, m)} : m \in DOMAIN mods}

\* The edge (M, P) is outside the progression check: P is no key, or a level of
\* M or of P is outside the enumerations.
Unchecked(mods, e) ==
    \/ e[2] \notin DOMAIN mods
    \/ ~WellTyped(mods[e[1]])
    \/ ~WellTyped(mods[e[2]])

RECURSIVE Collapsed(_)
Collapsed(q) ==
    IF q = <<>> THEN <<>>
    ELSE LET front == Collapsed(SubSeq(q, 1, Len(q) - 1))
         IN  IF InList(q[Len(q)], front) THEN front ELSE Append(front, q[Len(q)])

\* The registry with every prerequisites list collapsed.
ListedOnce(mods) ==
    [m \in DOMAIN mods |-> [mods[m] EXCEPT !.prerequisites = Collapsed(@)]]

\* No two findings of the list name the same (module, prerequisite) pair.
OnePerPair(list) ==
    \A a, b \in 1..Len(list) :
        (list[a].module = list[b].module /\ list[a].prereq = list[b].prereq) => a = b

\* C22: the findings of an analyzer are its findings on the registry whose
\* lists name every prerequisite once, and no (module, prerequisite) pair has
\* two DanglingPrerequisite or two ProgressionViolation findings.
C22_RepeatedPrerequisiteCountsOnce ==
    /\ Returned("references") =>
        /\ errors["references"]
                = validate_prerequisite_references(ListedOnce(modules), order)
        /\ OnePerPair(errors["references"])
    /\ Returned("orphans") =>
        errors["orphans"] = detect_orphans(ListedOnce(modules), order)
    /\ Returned("progression") =>
        /\ errors["progression"]
                = validate_progression_rules(ListedOnce(modules), order)
        /\ OnePerPair(errors["progression"])

\* C23: when the calls of the cycle, reachability and progression analyzers
\* overlap, a step of one call leaves the traversal state of the other calls
\* as it is, and under every interleaving of their steps each call returns
\* the finding list the analyzer returns for the registry when it runs alone.
C23_InterleavedAnalyzersReturnAsAlone ==
    /\ [][Runs("cycles") => UNCHANGED orphan_vars]_vars
    /\ [][Runs("orphans") => UNCHANGED cycle_vars]_vars
    /\ [][Runs("progression") => UNCHANGED <<cycle_vars, orphan_vars>>]_vars
    /\ [](threads # NoThreads =>
            /\ Returned("cycles") =>
                  \E nbrs \in NeighborOrders(BuildGraph(modules)) :
                      errors["cycles"] = detect_cycles(modules, order, nbrs)
            /\ Returned("orphans") =>
                  errors["orphans"] = detect_orphans(modules, order)
            /\ Returned("progression") =>
                  errors["progression"] = validate_progression_rules(modules, order))

\* The progression analyzer has returned a finding while the cycle analyzer is
\* inside a traversal and the reachability analyzer is suspended inside its loop.
C23_Witness ==
    /\ Runs("cycles") /\ pc = "has_cycle"
    /\ threads.at["orphans"] = "orphans_for" /\ reachable # {}
    /\ Returned("progression") /\ errors["progression"] # <<>>

\* C24: the list detect_cycles returned is non-empty exactly when the
\* prerequisite graph of the registry has a cycle: no finding for an acyclic
\* graph, at least one for a cyclic one, the visited marks kept from a
\* traversal that a detected cycle cut short notwithstanding.
C24_FindingIffCyclic ==
    Returned("cycles") => (errors["cycles"] # <<>> <=> ~Acyclic(modules))

\* detect_cycles has returned a finding for a graph where a traversal was cut
\* short at a module that has a second prerequisite, itself on another cycle.
C24_Witness ==
    /\ Returned("cycles")
    /\ errors["cycles"] # <<>>
    /\ \E n \in DOMAIN modules :
          /\ n \in Prereqs(modules, n)
          /\ \E p \in Prereqs(modules, n) \ {n} : OnCycle(modules, p)

\* The modules that lie on a cycle or have a dangling prerequisite.
Defective(mods) ==
    {n \in DOMAIN mods : OnCycle(mods, n) \/ ~(Prereqs(mods, n) \subseteq DOMAIN mods)}

\* C25: the list detect_orphans returned is empty exactly when the registry
\* has no cycle and no dangling prerequisite; and when some module has no
\* prerequisites, every module on a cycle, every module with a dangling
\* prerequisite and every module that depends on such a module directly or
\* transitively is among the modules reported as orphaned.
C25_NoOrphanFindingIffNoCycleNoDangling ==
    Returned("orphans") =>
        /\ errors["orphans"] = <<>> <=> (Acyclic(modules) /\ Dangling(modules) = {})
        /\ (\E f \in DOMAIN modules : Prereqs(modules, f) = {}) =>
               \A n \in DOMAIN modules :
                   ReachFrom(modules, {n}) \cap Defective(modules) # {} =>
                       n \in OrphanNamed

\* detect_orphans has returned for a registry with a foundation module and has
\* reported a module that is neither on a cycle nor has a dangling prerequisite
\* but depends on a module with a dangling prerequisite.
C25_Witness ==
    /\ Returned("orphans")
    /\ \E f \in DOMAIN modules : Prereqs(modules, f) = {}
    /\ \E n \in DOMAIN modules \ Defective(modules) :
          /\ n \in OrphanNamed
          /\ \E p \in Prereqs(modules, n) :
                p \in DOMAIN modules /\ ~(Prereqs(modules, p) \subseteq DOMAIN modules)

\* C26: the modules named by the findings detect_cycles returned are pairwise
\* distinct, from each of them a cycle is reached by prerequisite edges, and
\* the findings are at most as many as the modules of the registry; a finding
\* is appended only for the module at which the running traversal of the outer
\* loop started.
C26_NamedModulesDistinctStartsReachingCycle ==
    /\ [](Returned("cycles") =>
            LET found == errors["cycles"]
            IN  /\ \A a, b \in 1..Len(found) :
                      a # b => found[a].module # found[b].module
                /\ \A a \in 1..Len(found) :
                      \E p \in ReachFrom(modules, {found[a].module}) :
                          OnCycle(modules, p)
                /\ Len(found) <= Cardinality(DOMAIN modules))
    /\ [][Len(cycle_errors') > Len(cycle_errors) =>
            /\ stack # <<>>
            /\ order[k] = stack[1].node
            /\ cycle_errors' = Append(cycle_errors, CircularDependency(stack[1].node))]_vars

\* detect_cycles has returned two findings, one of them for a module that lies
\* on no cycle itself and reaches one through a prerequisite.
C26_Witness ==
    /\ Returned("cycles")
    /\ Len(errors["cycles"]) >= 2
    /\ \E n \in CycleNamed : ~OnCycle(modules, n)

\* The directory at position n holds a record whose id an earlier record carries.
Duplicate(n) ==
    /\ IsRecord(n)
    /\ \E a \in 1..(n - 1) :
          IsRecord(a) /\ module_dirs[a].meta.id = module_dirs[n].meta.id

InLoop == pc \in {"orphans_while", "orphans_for"}

\* C28: at every step of the fixed-point loop of detect_orphans the reachable
\* set only grows, and at every point of the loop it contains every module
\* without prerequisites, contains only identifiers of the registry, and holds
\* with each module all the prerequisites of that module.
C28_ReachableGrowsClosedInRegistry ==
    /\ [][InLoop => reachable \subseteq reachable']_vars
    /\ [](InLoop =>
            /\ {n \in DOMAIN modules : Prereqs(modules, n) = {}} \subseteq reachable
            /\ reachable \subseteq DOMAIN modules
            /\ \A n \in reachable : Prereqs(modules, n) \subseteq reachable)

\* The loop is in a pass after it added a module with a prerequisite to the
\* reachable set, another module still being outside it.
C28_Witness ==
    /\ pc = "orphans_for"
    /\ \E n \in reachable : Prereqs(modules, n) # {}
    /\ reachable # DOMAIN modules

Next ==
    \/ MainStart
    \/ DiscoverStep
    \/ DiscoverReturn
    \/ References
    \/ CyclesStart
    \/ CyclesFor
    \/ HasCycleDescend
    \/ HasCycleBackEdge
    \/ HasCycleSkip
    \/ HasCycleReturn
    \/ CyclesReturn
    \/ OrphansStart
    \/ OrphansWhile
    \/ OrphansFor
    \/ OrphansReturn
    \/ Progression
    \/ Report

Init == InitWith(GraphInputs \cup LevelInputs \cup LoadInputs)

Spec == Init /\ [][Next]_vars

SpecGraph == InitWith(GraphInputs) /\ [][Next]_vars

SpecLevels == InitWith(LevelInputs) /\ [][Next]_vars

SpecLoad == InitWith(LoadInputs) /\ [][Next]_vars

SpecDeep == InitWith(GraphInputs \cup DeepInputs) /\ [][Next]_vars

SpecSkips == InitWith(SkipInputs) /\ [][Next]_vars

SpecDuplicates == InitWith(DuplicateInputs) /\ [][Next]_vars

SpecParallel == InitWith(ParallelInputs) /\ [][NextParallel]_vars

\* main runs to its end: a step that can be taken is taken.
SpecChains == InitWith(ChainInputs) /\ [][Next]_vars /\ WF_vars(Next)

====
